---- MODULE Spec2Model ----
(***************************************************************************)
(* Tab / Tabs (the tabbed-window core) of                                  *)
(* packages/electron-chrome-extensions/src/browser/index.ts, lines 210-355 *)
(*                                                                         *)
(* The program is single-threaded and every method runs to completion, so  *)
(* each public method is one action.  A method body is a composition of    *)
(* state transformers over a record `s` holding the whole program state;   *)
(* a thrown error is the field `thrown`, and every transformer is the      *)
(* identity on a state that has already thrown (the rest of the call is    *)
(* skipped, the mutations made before the throw stay).                     *)
(*                                                                         *)
(* Listeners of the collection's notifications are observation points:     *)
(* each emit appends the notification together with a snapshot of the      *)
(* state the listener is called in.  Listeners that call back into the     *)
(* collection are outside the model.                                       *)
(*                                                                         *)
(* The registry of ElectronChromeExtensions instances by session (lines    *)
(* 39-76 of the same file) is modelled beside it, with its own             *)
(* specification.                                                          *)
(***************************************************************************)
EXTENDS Integers, Sequences, FiniteSets, TLC

\* ---------------------------------------------------------------- bounds

\* Number of WebContentsView objects the host hands out (create() calls).
MaxTabs == 3

\* Number of tabs created in the runs that also call Tab methods directly.
MaxDirectTabs == 2

\* Number of calls made directly on Tab objects (show() may be repeated
\* without end, each call adding a listener).
MaxDirectCalls == 2

\* Number of `new ElectronChromeExtensions(opts)` calls.
MaxInstances == 3

\* ------------------------------------------------------------- constants

toolbarHeight == 62

padding == 4

\* Window sizes [width, height] the host may report.
Sizes == { <<800, 600>>, <<1024, 768>> }

\* A window, view or webContents reference that is undefined.
Undefined == "undefined"

\* A tab reference that is null or undefined (both falsy; the code only
\* tests truthiness and identity against a Tab).  Tabs are referred to by
\* their webContents id, which is positive.
NoTab == 0

\* The BrowserWindow object handed to the Tabs constructor.
Win == "win"

\* electron's session.defaultSession.
DefaultSession == "defaultSession"

\* The sessions of the application.
Sessions == { DefaultSession, "sessionA", "sessionB" }

\* opts.session left out.
NoSession == "no session"

\* sessionMap.get(session) of a session that has no entry: undefined.
\* Instances are numbered from 1 in the order they are constructed.
NoInstance == 0

VARIABLES
    tabList,             \* Tabs.tabList: sequence of tabs (by id)
    selected,            \* Tabs.selected: a tab or Undefined
    window,              \* Tabs.window: Win or Undefined
    nextId,              \* next webContents id the host assigns
    tab,                 \* the constructed Tab objects: id -> fields
    resizeListeners,     \* the window's 'resize' listener array: each entry
                         \* is the bound invalidateLayout of that tab
    winSize,             \* window.getSize()
    windowDestroyCalls,  \* number of window.destroy() calls
    directCalls,         \* number of calls made directly on Tab objects
    sessionMap,          \* the module's sessionMap: session -> instance
    instances,           \* number of ElectronChromeExtensions objects made
    last                 \* the last call: name, argument, outcome (thrown,
                         \* returned tab), notifications emitted, layouts
                         \* recomputed, and the collection before the call

vars == << tabList, selected, window, nextId, tab, resizeListeners, winSize,
           windowDestroyCalls, directCalls, sessionMap, instances, last >>

\* The ids passed to select and remove: every id handed out so far (of a
\* tab in the collection or of a removed one) and one not handed out yet.
IdArgs == 1..nextId

\* ----------------------------------------------------- JavaScript arrays

\* Array.prototype.findIndex on ids: 0-based index of the first match, -1.
RECURSIVE FindFrom(_, _, _)
FindFrom(list, id, i) ==
    IF i > Len(list) THEN -1
    ELSE IF list[i] = id THEN i - 1
    ELSE FindFrom(list, id, i + 1)

FindIndex(list, id) == FindFrom(list, id, 1)

\* list[i] for a 0-based index: undefined (no tab) outside the array.
At(list, i) ==
    IF i >= 0 /\ i < Len(list) THEN list[i + 1] ELSE NoTab

\* splice(start) without the count: everything from start on is removed.
Splice1_toEnd(list, start) ==
    LET from == IF start < 0
                THEN (IF Len(list) + start < 0 THEN 0 ELSE Len(list) + start)
                ELSE (IF start > Len(list) THEN Len(list) ELSE start)
    IN  SubSeq(list, 1, from)

\* Array.prototype.splice(start, 1): a negative start counts from the end.
Splice1(list, start) ==
    LET from == IF start < 0
                THEN (IF Len(list) + start < 0 THEN 0 ELSE Len(list) + start)
                ELSE (IF start > Len(list) THEN Len(list) ELSE start)
    IN  IF from >= Len(list) THEN list
        ELSE SubSeq(list, 1, from) \o SubSeq(list, from + 2, Len(list))

\* EventEmitter.removeListener: removes at most one instance, the most
\* recently added one.
RECURSIVE LastIndexOf(_, _, _)
LastIndexOf(list, x, i) ==
    IF i = 0 THEN 0
    ELSE IF list[i] = x THEN i
    ELSE LastIndexOf(list, x, i - 1)

RemoveListener(list, x) ==
    LET i == LastIndexOf(list, x, Len(list))
    IN  IF i = 0 THEN list
        ELSE SubSeq(list, 1, i - 1) \o SubSeq(list, i + 1, Len(list))

\* ------------------------------------------------------------ the state

NoBounds == [x |-> 0, y |-> 0, width |-> 0, height |-> 0]

Cur ==
    [ tabList |-> tabList, selected |-> selected, window |-> window,
      nextId |-> nextId, tab |-> tab, resizeListeners |-> resizeListeners,
      winSize |-> winSize, windowDestroyCalls |-> windowDestroyCalls,
      thrown |-> FALSE, events |-> << >>, layouts |-> << >>,
      result |-> NoTab ]

Throw(s) == [s EXCEPT !.thrown = TRUE]

\* What a listener can observe of the collection when it is called.
Snapshot(s) ==
    [ tabList |-> s.tabList, selected |-> s.selected, tab |-> s.tab,
      resizeListeners |-> s.resizeListeners ]

\* EventEmitter.emit(name, t) on the collection.
Emit(s, name, t) ==
    IF s.thrown THEN s
    ELSE [s EXCEPT !.events = Append(@, [name |-> name, tab |-> t,
                                          at |-> Snapshot(s)])]

\* ------------------------------------------------------------ class Tab

\* The host's WebContentsView behind a tab: its visibility and bounds are
\* what view.setVisible / view.setBounds last set.  setBorderRadius(8) is a
\* constant and is left out.  `attached` is membership in
\* window.contentView's children.

\* Tab constructor (new Tab(parentWindow)).  The view is created first, so
\* the host's id is consumed even when parentWindow is undefined and
\* `this.window.contentView` throws a TypeError; no Tab object results then.
\* The visibility of a fresh view is never observed: create() shows it
\* before anything else can look.
Tab_constructor_noWindowCheck(s, parentWindow) ==
    IF s.thrown THEN s
    ELSE [s EXCEPT !.nextId = @ + 1,
                   !.tab = @ @@ (s.nextId :>
                      [ destroyed |-> FALSE, window |-> parentWindow,
                        view |-> "view", webContents |-> "live",
                        visible |-> FALSE, attached |-> TRUE,
                        bounds |-> NoBounds ])]

Tab_constructor(s, parentWindow) ==
    IF s.thrown THEN s
    ELSE LET id == s.nextId
             s1 == [s EXCEPT !.nextId = id + 1]
         IN  IF parentWindow = Undefined THEN Throw(s1)
             ELSE [s1 EXCEPT !.tab = @ @@ (id :>
                      [ destroyed |-> FALSE, window |-> parentWindow,
                        view |-> "view", webContents |-> "live",
                        visible |-> FALSE, attached |-> TRUE,
                        bounds |-> NoBounds ])]

\* The rectangle invalidateLayout computes from window.getSize().
LayoutBounds(size) ==
    [ x |-> padding,
      y |-> toolbarHeight + padding,
      width |-> size[1] - (padding * 2),
      height |-> size[2] - toolbarHeight - (padding * 2) ]

\* Tab.invalidateLayout: `this.window.getSize()` throws a TypeError once
\* destroy() has set this.window to undefined.
Tab_invalidateLayout(s, t) ==
    IF s.thrown THEN s
    ELSE IF s.tab[t].window = Undefined THEN Throw(s)
    ELSE IF s.tab[t].view = Undefined THEN Throw(s)
    ELSE [s EXCEPT !.tab[t].bounds = LayoutBounds(s.winSize),
                   !.layouts = Append(@, t)]

\* Tab.startResizeListener: EventEmitter.on appends, duplicates included.
Tab_startResizeListener(s, t) ==
    IF s.thrown THEN s
    ELSE IF s.tab[t].window = Undefined THEN Throw(s)
    ELSE [s EXCEPT !.resizeListeners = Append(@, t)]

\* Tab.stopResizeListener removing every instance of the handler.
Tab_stopResizeListener_removeAll(s, t) ==
    IF s.thrown THEN s
    ELSE IF s.tab[t].window = Undefined THEN Throw(s)
    ELSE [s EXCEPT !.resizeListeners =
                       SelectSeq(@, LAMBDA x : x # t)]

\* Tab.stopResizeListener: EventEmitter.off removes one instance.
Tab_stopResizeListener(s, t) ==
    IF s.thrown THEN s
    ELSE IF s.tab[t].window = Undefined THEN Throw(s)
    ELSE [s EXCEPT !.resizeListeners = RemoveListener(@, t)]

\* this.view.setVisible(v)
View_setVisible(s, t, v) ==
    IF s.thrown THEN s
    ELSE IF s.tab[t].view = Undefined THEN Throw(s)
    ELSE [s EXCEPT !.tab[t].visible = v]

\* Tab.show
Tab_show(s, t) ==
    View_setVisible(
        Tab_startResizeListener(Tab_invalidateLayout(s, t), t), t, TRUE)

\* Tab.hide that unsubscribes and leaves the view visible.
Tab_hide_keepVisible(s, t) == Tab_stopResizeListener(s, t)

\* Tab.hide
Tab_hide(s, t) ==
    View_setVisible(Tab_stopResizeListener(s, t), t, FALSE)

\* Tab.destroy after `this.hide()`: detach the view, clear the fields.
\* webContents.isDestroyed() is false for a tab that was not destroyed
\* before, so the webContents branch is always taken; closeDevTools and the
\* 'destroyed' emit on webContents change nothing that is modelled.  With
\* `this.view = undefined` the tab has no view left to be visible or to have
\* bounds.
Tab_release(s, t) ==
    IF s.thrown THEN s
    ELSE [s EXCEPT !.tab[t].attached = FALSE,
                   !.tab[t].window = Undefined,
                   !.tab[t].webContents = Undefined,
                   !.tab[t].view = Undefined,
                   !.tab[t].visible = FALSE,
                   !.tab[t].bounds = NoBounds]

\* Tab.destroy
Tab_destroy(s, t) ==
    IF s.thrown THEN s
    ELSE IF s.tab[t].destroyed THEN s
    ELSE Tab_release(Tab_hide([s EXCEPT !.tab[t].destroyed = TRUE], t), t)

\* ----------------------------------------------------------- class Tabs

\* Tabs.get: tabList.find by id; undefined when no tab has the id.
Tabs_get_firstTab(list, tabId) ==
    IF FindIndex(list, tabId) >= 0 THEN At(list, FindIndex(list, tabId))
    ELSE At(list, 0)

Tabs_get(list, tabId) == At(list, FindIndex(list, tabId))

\* Tabs.select
Tabs_select(s, tabId) ==
    IF s.thrown THEN s
    ELSE LET t == Tabs_get(s.tabList, tabId)
         IN  IF t = NoTab THEN s
             ELSE LET s1 == IF s.selected # NoTab
                            THEN Tab_hide(s, s.selected) ELSE s
                      s2 == Tab_show(s1, t)
                      s3 == IF s2.thrown THEN s2
                            ELSE [s2 EXCEPT !.selected = t]
                  IN  Emit(s3, "tab-selected", t)

\* Tabs.destroy, lines 306-309: release the window once.
Tabs_releaseWindow_keepRef(s) ==
    IF s.thrown THEN s
    ELSE IF s.window # Undefined
         THEN [s EXCEPT !.windowDestroyCalls = @ + 1]
         ELSE s

Tabs_releaseWindow(s) ==
    IF s.thrown THEN s
    ELSE IF s.window # Undefined
         THEN [s EXCEPT !.windowDestroyCalls = @ + 1, !.window = Undefined]
         ELSE s

\* Tabs.destroy without destroying the tabs it owns.
Tabs_destroyEach_none(s, list, i) == s

\* Tabs.destroy, line 301: tabList.forEach(tab => tab.destroy())
RECURSIVE Tabs_destroyEach(_, _, _)
Tabs_destroyEach(s, list, i) ==
    IF i > Len(list) THEN s
    ELSE Tabs_destroyEach(Tab_destroy(s, list[i]), list, i + 1)

\* Tabs.destroy, lines 302-304: forget the tabs and the selection.
Tabs_clear_keepSelected(s) ==
    IF s.thrown THEN s
    ELSE [s EXCEPT !.tabList = << >>]

Tabs_clear(s) ==
    IF s.thrown THEN s
    ELSE [s EXCEPT !.tabList = << >>, !.selected = NoTab]

\* Tabs.destroy
Tabs_destroy(s) ==
    Tabs_releaseWindow(Tabs_clear(Tabs_destroyEach(s, s.tabList, 1)))

\* Tabs.create putting the new tab at the front of the list.
Tabs_create_prepend(s) ==
    LET id == s.nextId
        s1 == Tab_constructor(s, s.window)
        s2 == IF s1.thrown THEN s1
              ELSE [s1 EXCEPT !.tabList = << id >> \o @,
                              !.selected = IF @ = NoTab THEN id ELSE @]
        s3 == Tab_show(s2, id)
        s4 == Emit(s3, "tab-created", id)
        s5 == Tabs_select(s4, id)
    IN  IF s5.thrown THEN s5 ELSE [s5 EXCEPT !.result = id]

\* Tabs.create
Tabs_create(s) ==
    LET id == s.nextId
        s1 == Tab_constructor(s, s.window)
        s2 == IF s1.thrown THEN s1
              ELSE [s1 EXCEPT !.tabList = Append(@, id),
                              !.selected = IF @ = NoTab THEN id ELSE @]
        s3 == Tab_show(s2, id)
        s4 == Emit(s3, "tab-created", id)
        s5 == Tabs_select(s4, id)
    IN  IF s5.thrown THEN s5 ELSE [s5 EXCEPT !.result = id]

\* Tabs.remove, line 328: findIndex found nothing.
NotFound_never(tabIndex) == tabIndex < -1

NotFound(tabIndex) == tabIndex < 0

\* Tabs.remove, line 336: this.tabList[tabIndex] || this.tabList[tabIndex - 1]
\* on the list the tab has already been spliced out of.
NextTab_previousFirst(list, tabIndex) ==
    IF At(list, tabIndex - 1) # NoTab THEN At(list, tabIndex - 1)
    ELSE At(list, tabIndex)

NextTab(list, tabIndex) ==
    IF At(list, tabIndex) # NoTab THEN At(list, tabIndex)
    ELSE At(list, tabIndex - 1)

\* Tabs.remove reselecting whichever tab was removed.
Tabs_reselect_always(s, t, tabIndex) ==
    IF s.thrown THEN s
    ELSE LET s1 == [s EXCEPT !.selected = NoTab]
             nextTab == NextTab(s1.tabList, tabIndex)
         IN  IF nextTab # NoTab THEN Tabs_select(s1, nextTab)
             ELSE s1

\* Tabs.remove, lines 334-338
Tabs_reselect(s, t, tabIndex) ==
    IF s.thrown THEN s
    ELSE IF s.selected = t
         THEN LET s1 == [s EXCEPT !.selected = NoTab]
                  nextTab == NextTab(s1.tabList, tabIndex)
              IN  IF nextTab # NoTab THEN Tabs_select(s1, nextTab)
                  ELSE s1
         ELSE s

\* Tabs.remove with the notification emitted before the tab is taken out.
Tabs_remove_emitFirst(s, tabId) ==
    LET tabIndex == FindIndex(s.tabList, tabId)
    IN  IF NotFound(tabIndex) THEN Throw(s)
        ELSE LET t == At(s.tabList, tabIndex)
                 s0 == Emit(s, "tab-destroyed", t)
                 s1 == [s0 EXCEPT !.tabList = Splice1(@, tabIndex)]
                 s2 == IF t = NoTab THEN Throw(s1) ELSE Tab_destroy(s1, t)
                 s3 == Tabs_reselect(s2, t, tabIndex)
             IN  IF ~s3.thrown /\ Len(s3.tabList) = 0 THEN Tabs_destroy(s3)
                 ELSE s3

\* Tabs.remove.  With tabIndex = -1 (reached only when the not-found test
\* lets it through) tabList[-1] is undefined and splice(-1, 1) drops the
\* last element; `tab.destroy()` on undefined throws.
Tabs_remove(s, tabId) ==
    LET tabIndex == FindIndex(s.tabList, tabId)
    IN  IF NotFound(tabIndex) THEN Throw(s)
        ELSE LET t == At(s.tabList, tabIndex)
                 s1 == [s EXCEPT !.tabList = Splice1(@, tabIndex)]
                 s2 == IF t = NoTab THEN Throw(s1) ELSE Tab_destroy(s1, t)
                 s3 == Tabs_reselect(s2, t, tabIndex)
                 s4 == Emit(s3, "tab-destroyed", t)
             IN  IF ~s4.thrown /\ Len(s4.tabList) = 0 THEN Tabs_destroy(s4)
                 ELSE s4

\* ------------------------------------------------------------ the window

\* window.emit('resize'): the listeners registered at the time of the emit
\* are called in order; a listener that throws ends the emit.
RECURSIVE Window_callListeners(_, _, _)
Window_callListeners(s, listeners, i) ==
    IF i > Len(listeners) THEN s
    ELSE Window_callListeners(Tab_invalidateLayout(s, listeners[i]),
                              listeners, i + 1)

Window_resize(s, size) ==
    LET s1 == [s EXCEPT !.winSize = size]
    IN  Window_callListeners(s1, s1.resizeListeners, 1)

\* ------------------------------------------------------------- actions

\* The state after a call that ended in state r.
Return(r, op, arg) ==
    /\ tabList' = r.tabList
    /\ selected' = r.selected
    /\ window' = r.window
    /\ nextId' = r.nextId
    /\ tab' = r.tab
    /\ resizeListeners' = r.resizeListeners
    /\ winSize' = r.winSize
    /\ windowDestroyCalls' = r.windowDestroyCalls
    /\ UNCHANGED << sessionMap, instances >>
    /\ last' = [ op |-> op, arg |-> arg, thrown |-> r.thrown,
                 events |-> r.events, layouts |-> r.layouts,
                 result |-> r.result,
                 pre |-> [tabList |-> tabList, selected |-> selected] ]

\* tabList = [], selected = null, window = browserWindow (lines 292-298);
\* no call has been made yet.
Init ==
    /\ tabList = << >>
    /\ selected = NoTab
    /\ window = Win
    /\ nextId = 1
    /\ tab = << >>
    /\ resizeListeners = << >>
    /\ winSize \in Sizes
    /\ windowDestroyCalls = 0
    /\ directCalls = 0
    /\ sessionMap = [ session \in Sessions |-> NoInstance ]
    /\ instances = 0
    /\ last = [ op |-> "new", arg |-> NoTab, thrown |-> FALSE,
                events |-> << >>, layouts |-> << >>, result |-> NoTab,
                pre |-> [tabList |-> << >>, selected |-> NoTab] ]

Create ==
    /\ nextId <= MaxTabs
    /\ Return(Tabs_create(Cur), "create", nextId)
    /\ UNCHANGED directCalls

Select(tabId) ==
    /\ Return(Tabs_select(Cur, tabId), "select", tabId)
    /\ UNCHANGED directCalls

Remove(tabId) ==
    /\ Return(Tabs_remove(Cur, tabId), "remove", tabId)
    /\ UNCHANGED directCalls

Destroy ==
    /\ Return(Tabs_destroy(Cur), "destroy", NoTab)
    /\ UNCHANGED directCalls

\* The user resizes the window; a destroyed window emits nothing.
Resize(size) ==
    /\ windowDestroyCalls = 0
    /\ Return(Window_resize(Cur, size), "resize", size)
    /\ UNCHANGED directCalls

\* Direct calls on a Tab object (create() returns it, the notifications
\* carry it).
TabShow(t) ==
    /\ directCalls < MaxDirectCalls
    /\ Return(Tab_show(Cur, t), "tab.show", t)
    /\ directCalls' = directCalls + 1

TabHide(t) ==
    /\ directCalls < MaxDirectCalls
    /\ Return(Tab_hide(Cur, t), "tab.hide", t)
    /\ directCalls' = directCalls + 1

TabDestroy(t) ==
    /\ directCalls < MaxDirectCalls
    /\ Return(Tab_destroy(Cur, t), "tab.destroy", t)
    /\ directCalls' = directCalls + 1

\* The collection's interface and the window.
Next ==
    \/ Create
    \/ \E tabId \in IdArgs : Select(tabId)
    \/ \E tabId \in IdArgs : Remove(tabId)
    \/ Destroy
    \/ \E size \in Sizes : Resize(size)

Spec == Init /\ [][Next]_vars

\* The same, with the Tab objects' own methods called by their holders.
TabNext ==
    \/ (nextId <= MaxDirectTabs /\ Create)
    \/ \E tabId \in IdArgs : Select(tabId)
    \/ \E tabId \in IdArgs : Remove(tabId)
    \/ Destroy
    \/ \E size \in Sizes : Resize(size)
    \/ \E t \in DOMAIN tab : TabShow(t)
    \/ \E t \in DOMAIN tab : TabHide(t)
    \/ \E t \in DOMAIN tab : TabDestroy(t)

TabSpec == Init /\ [][TabNext]_vars

\* ----------------------------------------- class ElectronChromeExtensions

\* const { session = electronSession.defaultSession } = opts
SessionOf(opts) ==
    IF opts.session = NoSession THEN DefaultSession ELSE opts.session

\* The constructor registering without asking sessionMap.has first.
Ext_constructor_noHasCheck(map, this, opts) ==
    IF ~opts.licenseOk THEN [map |-> map, thrown |-> TRUE]
    ELSE [ map |-> [map EXCEPT ![SessionOf(opts)] = this],
           thrown |-> FALSE ]

\* ElectronChromeExtensions constructor, lines 65-76, on the object `this`.
\* checkLicense (./license) throws for a license it rejects.  The rest of
\* the constructor (router, store, api objects, preload registration) does
\* not touch sessionMap.
Ext_constructor(map, this, opts) ==
    IF ~opts.licenseOk THEN [map |-> map, thrown |-> TRUE]
    ELSE IF map[SessionOf(opts)] # NoInstance
         THEN [map |-> map, thrown |-> TRUE]
    ELSE [ map |-> [map EXCEPT ![SessionOf(opts)] = this],
           thrown |-> FALSE ]

\* ElectronChromeExtensions.fromSession
Ext_fromSession(map, session) == map[session]

\* The record of a call on the registry.
ExtReturn(op, arg, thrown, result) ==
    /\ last' = [ op |-> op, arg |-> arg, thrown |-> thrown,
                 events |-> << >>, layouts |-> << >>, result |-> result,
                 pre |-> [tabList |-> tabList, selected |-> selected] ]
    /\ UNCHANGED << tabList, selected, window, nextId, tab, resizeListeners,
                    winSize, windowDestroyCalls, directCalls >>

\* new ElectronChromeExtensions(opts)
Construct(opts) ==
    /\ instances < MaxInstances
    /\ instances' = instances + 1
    /\ LET r == Ext_constructor(sessionMap, instances + 1, opts)
       IN  /\ sessionMap' = r.map
           /\ ExtReturn("new ElectronChromeExtensions", opts, r.thrown,
                        IF r.thrown THEN NoInstance ELSE instances + 1)

\* ElectronChromeExtensions.fromSession(session)
FromSession(session) ==
    /\ UNCHANGED << sessionMap, instances >>
    /\ ExtReturn("fromSession", session, FALSE,
                 Ext_fromSession(sessionMap, session))

ExtNext ==
    \/ \E licenseOk \in BOOLEAN, session \in Sessions \cup { NoSession } :
          Construct([licenseOk |-> licenseOk, session |-> session])
    \/ \E session \in Sessions : FromSession(session)

ExtSpec == Init /\ [][ExtNext]_vars

\* --------------------------------------------------------------- claims

Range(list) == { list[i] : i \in 1..Len(list) }

Count(list, x) == Cardinality({ i \in 1..Len(list) : list[i] = x })

\* The tabs of the collection whose view is visible.
VisibleTabs(list, tabs) == { t \in Range(list) : tabs[t].visible }

\* The number of registrations of a tab's layout handler on the window.
Subscriptions(t) == Count(resizeListeners, t)

\* The number of times the last call recomputed a tab's layout.
Layouts(t) == Count(last.layouts, t)

\* The selection of a collection is a tab of its sequence, and unset when
\* the sequence is empty.
SelectionInSequence(list, sel) ==
    IF list = << >> THEN sel = NoTab ELSE sel \in Range(list)

\* C1: after every completed create/select/remove call and inside every
\* 'tab-created', 'tab-selected' and 'tab-destroyed' listener, at most one
\* tab of the collection is visible.
C1_AtMostOneVisible ==
    /\ Cardinality(VisibleTabs(tabList, tab)) <= 1
    /\ \A i \in 1..Len(last.events) :
          Cardinality(VisibleTabs(last.events[i].at.tabList,
                                  last.events[i].at.tab)) <= 1

\* C2: a tab never holds more than one subscription to its window's resize
\* notification, and one resize recomputes a tab's layout at most once.
C2_AtMostOneSubscription ==
    /\ \A t \in DOMAIN tab : Subscriptions(t) <= 1
    /\ last.op = "resize" => \A t \in DOMAIN tab : Layouts(t) <= 1

\* C3: a hidden tab of the collection holds no resize subscription, and a
\* resize does not recompute its layout.
C3_HiddenNotSubscribed ==
    \A t \in Range(tabList) :
        ~tab[t].visible =>
            /\ Subscriptions(t) = 0
            /\ last.op = "resize" => Layouts(t) = 0

\* C4: a destroyed tab holds no resize subscription, and a window resize
\* raises no error.
C4_DestroyedNotSubscribed ==
    /\ \A t \in DOMAIN tab : tab[t].destroyed => Subscriptions(t) = 0
    /\ last.op = "resize" => ~last.thrown

\* C5: after every call and inside every listener of the collection, the
\* selection is a tab of the sequence when the sequence is non-empty and is
\* unset when it is empty.
C5_SelectedInSequence ==
    /\ SelectionInSequence(tabList, selected)
    /\ \A i \in 1..Len(last.events) :
          SelectionInSequence(last.events[i].at.tabList,
                              last.events[i].at.selected)

\* C5 happens: the selected tab was removed while other tabs remained, and
\* the collection reselected and notified.
C5_Witness ==
    /\ last.op = "remove"
    /\ ~last.thrown
    /\ last.pre.selected = last.arg
    /\ Len(tabList) >= 1
    /\ Len(last.events) = 2

\* C6: show(), hide() and destroy() on a tab that is already destroyed
\* raise no error and change nothing.
C6_DestroyedTabIsInert ==
    [][ \A t \in DOMAIN tab :
          ( /\ tab[t].destroyed
            /\ last'.op \in {"tab.show", "tab.hide", "tab.destroy"}
            /\ last'.arg = t )
          => ( /\ ~last'.thrown
               /\ UNCHANGED << tabList, selected, window, tab,
                               resizeListeners, windowDestroyCalls >> )
      ]_vars

\* The tab that followed position i of the list, else the one before it,
\* else no tab.
SuccessorElsePredecessor(list, i) ==
    IF i + 2 <= Len(list) THEN list[i + 2]
    ELSE IF i >= 1 THEN list[i]
    ELSE NoTab

\* C7: removing the selected tab selects the tab that followed it before
\* the removal, else the one that preceded it, else no tab; the newly
\* selected tab is visible.
C7_RemoveSelectsSuccessor ==
    ( /\ last.op = "remove"
      /\ ~last.thrown
      /\ last.pre.selected = last.arg )
    => LET expected == SuccessorElsePredecessor(
                           last.pre.tabList,
                           FindIndex(last.pre.tabList, last.arg))
       IN  /\ selected = expected
           /\ expected # NoTab => tab[expected].visible

\* C7 happens: the selected middle tab of three was removed.
C7_Witness ==
    /\ last.op = "remove"
    /\ ~last.thrown
    /\ last.pre.selected = last.arg
    /\ Len(last.pre.tabList) = 3
    /\ FindIndex(last.pre.tabList, last.arg) = 1

\* C8: removing the only remaining tab leaves the sequence empty, the
\* selection unset and the window reference released, and the window is
\* destroyed once; it is never destroyed a second time.
C8_LastTabCascade ==
    /\ windowDestroyCalls <= 1
    /\ ( /\ last.op = "remove"
         /\ ~last.thrown
         /\ Len(last.pre.tabList) = 1 )
       => ( /\ tabList = << >>
            /\ selected = NoTab
            /\ window = Undefined
            /\ windowDestroyCalls = 1 )

\* C8 happens: the only tab of the collection was removed.
C8_Witness ==
    /\ last.op = "remove"
    /\ ~last.thrown
    /\ Len(last.pre.tabList) = 1
    /\ last.pre.tabList[1] = last.arg

\* C9: remove(id) with an id that is not in the collection throws, emits
\* nothing and changes nothing.
C9_RemoveUnknownThrows ==
    [][ ( /\ last'.op = "remove"
          /\ FindIndex(tabList, last'.arg) < 0 )
        => ( /\ last'.thrown
             /\ last'.events = << >>
             /\ UNCHANGED << tabList, selected, window, nextId, tab,
                             resizeListeners, winSize,
                             windowDestroyCalls >> )
      ]_vars

\* C9 happens: remove was called with an unknown id on a collection that
\* holds tabs.
C9_Witness ==
    /\ last.op = "remove"
    /\ last.thrown
    /\ FindIndex(last.pre.tabList, last.arg) < 0
    /\ Len(tabList) >= 2

\* C10: select(id) with an id that resolves to no tab of the collection
\* raises no error, emits nothing and changes nothing.
C10_SelectUnknownIsNoOp ==
    [][ ( /\ last'.op = "select"
          /\ FindIndex(tabList, last'.arg) < 0 )
        => ( /\ ~last'.thrown
             /\ last'.events = << >>
             /\ UNCHANGED << tabList, selected, window, nextId, tab,
                             resizeListeners, winSize,
                             windowDestroyCalls >> )
      ]_vars

\* C10 happens: select was called with the id of a removed tab while
\* another tab was selected.
C10_Witness ==
    /\ last.op = "select"
    /\ ~last.thrown
    /\ last.arg < nextId
    /\ FindIndex(last.pre.tabList, last.arg) < 0
    /\ selected # NoTab

\* C11: inside every 'tab-destroyed' listener the tab of the notification
\* is already out of the sequence, already destroyed, and not the selection.
C11_DestroyedNotifiedAfterRemoval ==
    \A i \in 1..Len(last.events) :
        LET e == last.events[i]
        IN  e.name = "tab-destroyed" =>
                /\ Tabs_get(e.at.tabList, e.tab) = NoTab
                /\ e.at.tab[e.tab].destroyed
                /\ e.at.selected # e.tab

\* C11 happens: the selected tab was removed while another remained, and
\* 'tab-destroyed' was emitted after the reselection.
C11_Witness ==
    /\ last.op = "remove"
    /\ last.pre.selected = last.arg
    /\ Len(last.pre.tabList) >= 2
    /\ Len(last.events) = 2
    /\ last.events[2].name = "tab-destroyed"
    /\ last.events[2].tab = last.arg

\* The collection is destroyed: its window reference is released.
CollectionDestroyed == window = Undefined

\* C12: a destroyed collection has an empty sequence, no selection, only
\* destroyed tabs and a window that was destroyed once; no later call
\* changes any of that.
C12_DestroyedIsTerminal ==
    [][ /\ CollectionDestroyed' =>
            /\ tabList' = << >>
            /\ selected' = NoTab
            /\ \A t \in DOMAIN tab' : tab'[t].destroyed
            /\ windowDestroyCalls' = 1
        /\ CollectionDestroyed =>
            /\ CollectionDestroyed'
            /\ UNCHANGED << tabList, selected, tab, resizeListeners,
                            windowDestroyCalls >>
      ]_vars

\* C12 happens: destroy() was called again on a collection that had tabs
\* and is already destroyed.
C12_Witness ==
    /\ last.op = "destroy"
    /\ last.pre.tabList = << >>
    /\ nextId > 1
    /\ CollectionDestroyed

\* C13: create() on a collection whose window is released throws,
\* registers no tab, keeps the selection and emits nothing.
C13_CreateOnReleasedWindowFails ==
    [][ ( /\ last'.op = "create"
          /\ window = Undefined )
        => ( /\ last'.thrown
             /\ last'.events = << >>
             /\ last'.result = NoTab
             /\ UNCHANGED << tabList, selected, window, tab,
                             resizeListeners, windowDestroyCalls >> )
      ]_vars

\* C13 happens: create() was called after the collection, which had held
\* a tab, released its window.
C13_Witness ==
    /\ last.op = "create"
    /\ last.thrown
    /\ window = Undefined
    /\ DOMAIN tab # {}

\* C14: select(id) of the tab that is already selected raises no error and
\* leaves the sequence, the selection, every tab's visibility and every
\* tab's number of resize subscriptions as they were.
C14_SelectSelectedIsNoOp ==
    [][ ( /\ last'.op = "select"
          /\ selected # NoTab
          /\ last'.arg = selected )
        => ( /\ ~last'.thrown
             /\ UNCHANGED << tabList, selected >>
             /\ DOMAIN tab' = DOMAIN tab
             /\ \A t \in DOMAIN tab :
                   /\ tab'[t].visible = tab[t].visible
                   /\ Count(resizeListeners', t) = Count(resizeListeners, t) )
      ]_vars

\* C14 happens: the selected tab, which holds two subscriptions, was
\* selected again.
C14_Witness ==
    /\ last.op = "select"
    /\ ~last.thrown
    /\ last.arg # NoTab
    /\ last.pre.selected = last.arg
    /\ Subscriptions(last.arg) = 2

\* The rectangle the claim states for a window of size (w, h).
ClaimedBounds(w, h) ==
    [ x |-> 4, y |-> 66, width |-> w - 8, height |-> h - 62 - 8 ]

\* C15: a tab whose layout the last call computed has the claimed bounds
\* for the window's size ({4, 66, 792, 530} for 800 by 600); the layout is
\* computed by every show(), and by every resize for every visible tab.
C15_LayoutFormulaAndRecompute ==
    /\ \A t \in Range(last.layouts) :
          /\ tab[t].bounds = ClaimedBounds(winSize[1], winSize[2])
          /\ winSize = <<800, 600>> =>
                tab[t].bounds = [x |-> 4, y |-> 66, width |-> 792,
                                 height |-> 530]
    /\ ( last.op \in {"create", "select"} /\ Len(last.events) > 0 )
          => selected \in Range(last.layouts)
    /\ last.op = "resize" =>
          \A t \in VisibleTabs(tabList, tab) : Layouts(t) >= 1

\* C16: a create() that succeeds appends the new tab at the end of the
\* sequence, returns it, leaves it selected and visible and the tab that
\* was selected before hidden, and emits 'tab-created' and then
\* 'tab-selected' for it, and nothing else.
C16_CreateAppendsSelectsNotifies ==
    ( last.op = "create" /\ ~last.thrown )
    => LET new == last.result
       IN  /\ new # NoTab
           /\ Tabs_get(last.pre.tabList, new) = NoTab
           /\ tabList = Append(last.pre.tabList, new)
           /\ selected = new
           /\ tab[new].visible
           /\ last.pre.selected # NoTab => ~tab[last.pre.selected].visible
           /\ Len(last.events) = 2
           /\ last.events[1].name = "tab-created"
           /\ last.events[1].tab = new
           /\ last.events[2].name = "tab-selected"
           /\ last.events[2].tab = new

\* C16 happens: a tab was created while another tab was selected among
\* two.
C16_Witness ==
    /\ last.op = "create"
    /\ ~last.thrown
    /\ Len(last.pre.tabList) = 2
    /\ last.pre.selected = last.pre.tabList[1]

\* Ids are handed out in creation order, so a list in creation order
\* without repetition is a strictly increasing one.
InCreationOrder(list) ==
    \A i, j \in 1..Len(list) : i < j => list[i] < list[j]

\* C17: the sequence never holds a tab twice and lists the tabs that are
\* not destroyed in creation order; create appends at the end, remove
\* takes out exactly the tab with the id, select does not touch the
\* sequence.
C17_SequenceInCreationOrder ==
    [][ /\ InCreationOrder(tabList')
        /\ Range(tabList') = { t \in DOMAIN tab' : ~tab'[t].destroyed }
        /\ ( last'.op = "create" /\ ~last'.thrown )
              => tabList' = Append(tabList, last'.result)
        /\ ( last'.op = "remove" /\ ~last'.thrown )
              => /\ Len(tabList') = Len(tabList) - 1
                 /\ tabList' = SelectSeq(tabList, LAMBDA x : x # last'.arg)
        /\ last'.op = "select" => tabList' = tabList
      ]_vars

\* C17 happens: the middle tab of three was removed and the other two
\* stayed in order.
C17_Witness ==
    /\ last.op = "remove"
    /\ ~last.thrown
    /\ Len(last.pre.tabList) = 3
    /\ last.pre.tabList[2] = last.arg
    /\ tabList = << last.pre.tabList[1], last.pre.tabList[3] >>

\* C18: after every completed call the visible tabs are exactly the
\* selection: the selected tab alone when the sequence is non-empty, no tab
\* when it is empty.
C18_VisibleIsSelected ==
    /\ { t \in DOMAIN tab : tab[t].visible } =
          IF tabList = << >> THEN {} ELSE { selected }
    /\ tabList # << >> => selected \in Range(tabList)

\* C18 happens: a selection was moved back to an earlier tab among three.
C18_Witness ==
    /\ last.op = "select"
    /\ Len(last.events) = 1
    /\ Len(tabList) = 3
    /\ last.pre.selected = tabList[3]
    /\ selected = tabList[1]

\* C19: remove(id) of a tab of the collection that is not the selected one
\* keeps the selection, changes no other tab (fields and subscriptions),
\* and emits one 'tab-destroyed' for the removed tab and nothing else.
C19_RemoveUnselectedFrame ==
    [][ ( /\ last'.op = "remove"
          /\ Tabs_get(tabList, last'.arg) # NoTab
          /\ selected # last'.arg )
        => ( /\ ~last'.thrown
             /\ selected' = selected
             /\ DOMAIN tab' = DOMAIN tab
             /\ \A t \in DOMAIN tab \ { last'.arg } :
                   /\ tab'[t] = tab[t]
                   /\ Count(resizeListeners', t) = Count(resizeListeners, t)
             /\ tab'[last'.arg].destroyed
             /\ Len(last'.events) = 1
             /\ last'.events[1].name = "tab-destroyed"
             /\ last'.events[1].tab = last'.arg )
      ]_vars

\* C19 happens: a tab other than the selected one was removed, and the
\* selected tab is still selected and visible.
C19_Witness ==
    /\ last.op = "remove"
    /\ ~last.thrown
    /\ last.pre.selected # last.arg
    /\ selected = last.pre.selected
    /\ selected # NoTab
    /\ tab[selected].visible
    /\ Len(last.pre.tabList) = 3

\* C20: a session's registered instance never changes; constructing an
\* instance for a session that has one throws and leaves the registry as it
\* was; fromSession returns the registered instance.
C20_OneInstancePerSession ==
    [][ /\ \A session \in Sessions :
              sessionMap[session] # NoInstance
                  => sessionMap'[session] = sessionMap[session]
        /\ ( /\ last'.op = "new ElectronChromeExtensions"
             /\ sessionMap[SessionOf(last'.arg)] # NoInstance )
           => ( last'.thrown /\ sessionMap' = sessionMap )
        /\ ( /\ last'.op = "new ElectronChromeExtensions"
             /\ ~last'.thrown )
           => sessionMap'[SessionOf(last'.arg)] = last'.result
        /\ last'.op = "fromSession"
           => last'.result = sessionMap[last'.arg]
      ]_vars

\* C20 happens: with a valid license, a second instance was constructed for
\* the default session (opts.session left out), which already had one.
C20_Witness ==
    /\ last.op = "new ElectronChromeExtensions"
    /\ last.thrown
    /\ last.arg.licenseOk
    /\ last.arg.session = NoSession
    /\ sessionMap[DefaultSession] # NoInstance
    /\ sessionMap[DefaultSession] < instances

====
